---- MODULE Spec2Model ----
(***************************************************************************)
(* Model of pipelines/blockchain/pipeline.py: the builder get_pipeline,    *)
(* statement group by statement group, the helper                          *)
(* get_pipeline_custom_tags, and the engine's execution of the graph the   *)
(* builder returns.                                                        *)
(***************************************************************************)
EXTENDS Integers, Sequences, FiniteSets, TLC

\* ------------------------------------------------------------------ bounds
MaxCalls == 2          \* invocations of get_pipeline in one behaviour
MaxParams == 2         \* parameters returned for the validation-threshold path
MaxMetric == 2         \* metric values the evaluation report may hold: 0..MaxMetric
MaxTagCalls == 2       \* invocations of get_pipeline_custom_tags
MaxTags == 2           \* length of the caller's list and of the project's tag list

None == "None"

\* ------------------------------------------------- module-level constants
PROCESSING_STEP_NAME == "PreprocessData"
TRAINING_STEP_NAME == "TrainModel"
CREATE_MODEL_STEP_NAME == "CreateModel"
TRANSFORM_STEP_NAME == "Transform"
MODEL_QUALITY_CHECK_STEP_NAME == "QualityCheck"
EVALUATION_REPORT_NAME == "EvaluationReport"
EVALUATION_STEP_NAME == "EvaluateModel"
REGISTER_MODEL_STEP_NAME == "RegisterModel"
CONDITON_STEP_NAME == "CheckMQLCondition"
PROCESSING_INSTANCE_TYPE == "ml.t3.medium"
TRAINING_INSTANCE_TYPE == "ml.c5.2xlarge"

\* --------------------------------------------------------- python mappings
\* A dict is a function; {} is the function of empty domain.
EmptyMap == [k \in {} |-> None]

\* d[k] = v on a dict.
Put(d, k, v) == [x \in (DOMAIN d) \cup {k} |-> IF x = k THEN v ELSE d[x]]

\* param["Name"].split("/")[-1]: the name is kept as its "/"-separated components.
SplitLast(name) == name[Len(name)]

\* float(s): the strings the parameter store may hold and what float makes of
\* them; a string outside the domain raises ValueError.
FloatTable == [s \in {"0", "1", "2"} |-> CASE s = "0" -> 0 [] s = "1" -> 1 [] s = "2" -> 2]

FloatParses(s) == s \in DOMAIN FloatTable

Float(s) == FloatTable[s]

\* ------------------------------------------------------- the external world
Param(section, key, value) ==
    [Name |-> <<"", "rdi-mlops", "sagemaker", "model-build", section, key>>, Value |-> value]

Response(params) == [raises |-> FALSE, Parameters |-> params]

Failure == [raises |-> TRUE, Parameters |-> <<>>]

TargetFull ==
    << Param("target", "freq", "1min"),
       Param("target", "target_col", "total_fee"),
       Param("target", "prediction_length", "5") >>

HyperFull ==
    << Param("training-hyperparameters", "epochs", "10"),
       Param("training-hyperparameters", "early_stopping_patience", "3"),
       Param("training-hyperparameters", "mini_batch_size", "32"),
       Param("training-hyperparameters", "learning_rate", "0.001") >>

\* lookups of the target path: it raises, returns every key, or lacks keys
TargetResponses == {Failure, Response(TargetFull), Response(SubSeq(TargetFull, 1, 2))}

HyperResponses == {Failure, Response(HyperFull), Response(SubSeq(HyperFull, 1, 3))}

ThresholdParams ==
    { Param("validation-threshold", k, v) :
        k \in {"mean_quantile_loss", "weighted_quantile_loss", "rmse"}, v \in {"1", "abc"} }

\* a path holds each name once
DistinctNames(params) ==
    \A i, j \in 1..Len(params) : i # j => params[i].Name # params[j].Name

SeqsUpTo(S, n) == UNION { [1..m -> S] : m \in 0..n }

ThresholdResponses ==
    {Failure}
    \cup { Response(ps) : ps \in { qs \in SeqsUpTo(ThresholdParams, MaxParams) : DistinctNames(qs) } }

FeatureGroupResponses ==
    { [raises |-> TRUE, Value |-> None], [raises |-> FALSE, Value |-> "blockchain-fg"] }

\* the arguments of get_pipeline: every default taken, or every argument given
Arguments ==
    { [role |-> None, default_bucket |-> None,
       sagemaker_project_name |-> None, sagemaker_project_id |-> None],
      [role |-> "CallerRole", default_bucket |-> "caller-bucket",
       sagemaker_project_name |-> "proj", sagemaker_project_id |-> "p-1"] }

Environments ==
    [ args : Arguments,
      feature_group : FeatureGroupResponses,
      target : TargetResponses,
      hyper : HyperResponses,
      thresholds : ThresholdResponses ]

\* ------------------------------------------------------------------- errors
PlatformError(call) == [type |-> "PlatformError", what |-> call]

ParameterStoreError(path) == [type |-> "ParameterStoreError", what |-> path]

ValueError(s) == [type |-> "ValueError", what |-> s]

KeyError(k) == [type |-> "KeyError", what |-> k]

NoError == [type |-> None, what |-> None]

VARIABLES
    env,                             \* parameter store contents and call arguments
    calls,                           \* invocations of get_pipeline started
    pc,                              \* position inside get_pipeline
    role,
    default_bucket,
    feature_group_name,
    model_target_parameters,
    model_training_hyperparameters,
    model_validation_thresholds,
    defined,                         \* the step objects, in the order built
    log,                             \* what the invocation printed
    ext_failures,                    \* failures raised by external calls
    exc,                             \* the exception get_pipeline ended with
    result,                          \* the pipeline get_pipeline returned
    prev,                            \* the pipeline the invocation before returned
    execution,                       \* the engine's evaluation of the condition step
    status,                          \* the engine's run: where each step stands
    new_tags,                        \* the caller's tag list
    supplied,                        \* new_tags as it was at the last call
    tags_result,                     \* outcome of the last get_pipeline_custom_tags
    tag_calls,
    original,                        \* the caller's list before any call
    listed                           \* every tag the lookups that succeeded returned

locals == <<role, default_bucket, feature_group_name, model_target_parameters,
            model_training_hyperparameters, model_validation_thresholds>>

tagVars == <<new_tags, supplied, tags_result, tag_calls, original, listed>>

buildVars == <<env, calls, pc, role, default_bucket, feature_group_name,
               model_target_parameters, model_training_hyperparameters,
               model_validation_thresholds, defined, log, ext_failures, exc,
               result, prev, execution, status>>

vars == <<env, calls, pc, role, default_bucket, feature_group_name,
          model_target_parameters, model_training_hyperparameters,
          model_validation_thresholds, defined, log, ext_failures, exc,
          result, prev, execution, status, new_tags, supplied, tags_result, tag_calls,
          original, listed>>

\* ------------------------------------------------------ the object model
JsonGet(step_name, property_file, json_path) ==
    [step_name |-> step_name, property_file |-> property_file, json_path |-> json_path]

NoCondition == [type |-> None, left |-> JsonGet(None, None, None), right |-> 0]

\* the comparison made strict
ConditionLessThan(left, right) == [type |-> "LessThan", left |-> left, right |-> right]

ConditionLessThanOrEqualTo(left, right) ==
    [type |-> "LessThanOrEqualTo", left |-> left, right |-> right]

\* A step: its name, the names in depends_on, the steps whose properties its
\* arguments refer to, the parameter placeholders it refers to, the plain
\* configuration values it was given.
Step(name, kind, depends_on, refs, params, args) ==
    [name |-> name, kind |-> kind, depends_on |-> depends_on, refs |-> refs,
     params |-> params, args |-> args, property_files |-> {},
     condition |-> NoCondition, if_steps |-> <<>>, else_steps |-> <<>>]

Placeholder(kind, name, default_value) ==
    [kind |-> kind, name |-> name, default_value |-> default_value]

processing_instance_count == Placeholder("ParameterInteger", "ProcessingInstanceCount", "1")

model_approval_status ==
    Placeholder("ParameterString", "ModelApprovalStatus", "PendingManualApproval")

skip_check_model_quality == Placeholder("ParameterBoolean", "SkipModelQualityCheck", "False")

register_new_baseline_model_quality ==
    Placeholder("ParameterBoolean", "RegisterNewModelQualityBaseline", "False")

supplied_baseline_statistics_model_quality ==
    Placeholder("ParameterString", "ModelQualitySuppliedStatistics", "")

supplied_baseline_constraints_model_quality ==
    Placeholder("ParameterString", "ModelQualitySuppliedConstraints", "")

\* a plain str value standing in the parameter list
Str(s) == [kind |-> "str", name |-> None, default_value |-> s]

\* f"{sagemaker_project_name}-{sagemaker_project_id}" after the defaults
\* the prefix made unique per invocation
BaseJobPrefixPerCall(sagemaker_project_name, sagemaker_project_id) ==
    << IF sagemaker_project_name = None THEN "blockchain-forecasting"
       ELSE sagemaker_project_name,
       IF sagemaker_project_id = None THEN "mlops-pipeline" ELSE sagemaker_project_id,
       calls >>

BaseJobPrefix(sagemaker_project_name, sagemaker_project_id) ==
    << IF sagemaker_project_name = None THEN "blockchain-forecasting"
       ELSE sagemaker_project_name,
       IF sagemaker_project_id = None THEN "mlops-pipeline" ELSE sagemaker_project_id >>

base_job_prefix ==
    BaseJobPrefix(env.args.sagemaker_project_name, env.args.sagemaker_project_id)

processing_image_uri == "base-python-310-image"

deepar_image_uri == "forecasting-deepar-1-image"

\* the first subscript, in evaluation order, whose key the dict lacks
RECURSIVE FirstMissing(_)
FirstMissing(lookups) ==
    IF lookups = <<>> THEN None
    ELSE IF Head(lookups).key \notin DOMAIN Head(lookups).dict THEN Head(lookups).key
    ELSE FirstMissing(Tail(lookups))

Subscript(d, k) == [dict |-> d, key |-> k]

PreprocessingLookups ==
    << Subscript(model_target_parameters, "freq"),
       Subscript(model_target_parameters, "target_col"),
       Subscript(model_target_parameters, "prediction_length") >>

HyperparameterLookups ==
    << Subscript(model_target_parameters, "freq"),
       Subscript(model_training_hyperparameters, "epochs"),
       Subscript(model_training_hyperparameters, "early_stopping_patience"),
       Subscript(model_training_hyperparameters, "mini_batch_size"),
       Subscript(model_training_hyperparameters, "learning_rate"),
       Subscript(model_target_parameters, "prediction_length"),
       Subscript(model_target_parameters, "prediction_length") >>

EvaluationLookups == << Subscript(model_target_parameters, "target_col") >>

ConditionLookups == << Subscript(model_validation_thresholds, "mean_quantile_loss") >>

StepPreprocessing ==
    Step(PROCESSING_STEP_NAME, "ProcessingStep", {}, {}, {},
         << processing_image_uri, role, feature_group_name, default_bucket,
            base_job_prefix[1], base_job_prefix[2],
            model_target_parameters["freq"],
            model_target_parameters["target_col"],
            model_target_parameters["prediction_length"] >>)

\* the training step made to wait for the transform step
StepTrainAfterTransform ==
    Step(TRAINING_STEP_NAME, "TrainingStep",
         {TRANSFORM_STEP_NAME}, {PROCESSING_STEP_NAME}, {},
         << deepar_image_uri, role, default_bucket,
            base_job_prefix[1], base_job_prefix[2],
            model_target_parameters["freq"],
            model_training_hyperparameters["epochs"],
            model_training_hyperparameters["early_stopping_patience"],
            model_training_hyperparameters["mini_batch_size"],
            model_training_hyperparameters["learning_rate"],
            model_target_parameters["prediction_length"],
            model_target_parameters["prediction_length"],
            "negative-binomial" >>)

StepTrain ==
    Step(TRAINING_STEP_NAME, "TrainingStep",
         {PROCESSING_STEP_NAME}, {PROCESSING_STEP_NAME}, {},
         << deepar_image_uri, role, default_bucket,
            base_job_prefix[1], base_job_prefix[2],
            model_target_parameters["freq"],
            model_training_hyperparameters["epochs"],
            model_training_hyperparameters["early_stopping_patience"],
            model_training_hyperparameters["mini_batch_size"],
            model_training_hyperparameters["learning_rate"],
            model_target_parameters["prediction_length"],
            model_target_parameters["prediction_length"],
            "negative-binomial" >>)

StepCreateModel ==
    Step(CREATE_MODEL_STEP_NAME, "ModelStep", {}, {TRAINING_STEP_NAME}, {},
         << deepar_image_uri, role >>)

StepTransform ==
    Step(TRANSFORM_STEP_NAME, "TransformStep", {},
         {CREATE_MODEL_STEP_NAME, PROCESSING_STEP_NAME}, {},
         << default_bucket, base_job_prefix[1], base_job_prefix[2] >>)

StepEval ==
    [ Step(EVALUATION_STEP_NAME, "ProcessingStep",
           {TRANSFORM_STEP_NAME}, {PROCESSING_STEP_NAME, TRANSFORM_STEP_NAME}, {},
           << processing_image_uri, role, model_target_parameters["target_col"] >>)
      EXCEPT !.property_files = {EVALUATION_REPORT_NAME} ]

ModelQualityCheckStep(model_package_group_name) ==
    Step(MODEL_QUALITY_CHECK_STEP_NAME, "QualityCheckStep", {}, {EVALUATION_STEP_NAME},
         { skip_check_model_quality.name, register_new_baseline_model_quality.name,
           supplied_baseline_statistics_model_quality.name,
           supplied_baseline_constraints_model_quality.name },
         << role, default_bucket, base_job_prefix[1], base_job_prefix[2],
            model_package_group_name >>)

\* the registration without the metrics and baselines of the quality check
StepRegisterWithoutBaselines(model_package_group_name) ==
    Step(REGISTER_MODEL_STEP_NAME, "ModelStep", {},
         {TRAINING_STEP_NAME},
         {model_approval_status.name},
         << deepar_image_uri, role, model_package_group_name >>)

StepRegister(model_package_group_name) ==
    Step(REGISTER_MODEL_STEP_NAME, "ModelStep", {},
         {TRAINING_STEP_NAME, MODEL_QUALITY_CHECK_STEP_NAME},
         {model_approval_status.name},
         << deepar_image_uri, role, model_package_group_name >>)

\* the step object a local variable of the builder holds
Local(name) == (CHOOSE i \in 1..Len(defined) : defined[i].name = name)

StepCond ==
    [ Step(CONDITON_STEP_NAME, "ConditionStep", {}, {}, {}, <<>>)
      EXCEPT !.condition =
                 ConditionLessThanOrEqualTo(
                     JsonGet(defined[Local(EVALUATION_STEP_NAME)].name,
                             EVALUATION_REPORT_NAME,
                             "deepar_metrics.mean_quantile_loss.value"),
                     model_validation_thresholds["mean_quantile_loss"]),
             !.if_steps = << defined[Local(REGISTER_MODEL_STEP_NAME)] >>,
             !.else_steps = <<>> ]

PipelineParameters ==
    << Str(PROCESSING_INSTANCE_TYPE),
       processing_instance_count,
       Str(TRAINING_INSTANCE_TYPE),
       model_approval_status,
       Str(feature_group_name),
       skip_check_model_quality,
       register_new_baseline_model_quality,
       supplied_baseline_statistics_model_quality,
       supplied_baseline_constraints_model_quality >>

\* the registration step listed at the top level as well
PipelineStepsWithRegister ==
    << defined[Local(PROCESSING_STEP_NAME)],
       defined[Local(TRAINING_STEP_NAME)],
       defined[Local(CREATE_MODEL_STEP_NAME)],
       defined[Local(TRANSFORM_STEP_NAME)],
       defined[Local(EVALUATION_STEP_NAME)],
       defined[Local(MODEL_QUALITY_CHECK_STEP_NAME)],
       defined[Local(REGISTER_MODEL_STEP_NAME)],
       defined[Local(CONDITON_STEP_NAME)] >>

PipelineSteps ==
    << defined[Local(PROCESSING_STEP_NAME)],
       defined[Local(TRAINING_STEP_NAME)],
       defined[Local(CREATE_MODEL_STEP_NAME)],
       defined[Local(TRANSFORM_STEP_NAME)],
       defined[Local(EVALUATION_STEP_NAME)],
       defined[Local(MODEL_QUALITY_CHECK_STEP_NAME)],
       defined[Local(CONDITON_STEP_NAME)] >>

Pipeline(name, parameters, steps) ==
    [name |-> name, parameters |-> parameters, steps |-> steps]

NoPipeline == Pipeline(<<>>, <<>>, <<>>)

\* --------------------------------------------- reading a configuration path
\* for param in response["Parameters"]: d[param["Name"].split("/")[-1]] = ...
\* The loop stops at the first value float() refuses; what it stored stays.
RECURSIVE StoreParameters(_, _, _)
StoreParameters(params, d, as_float) ==
    IF params = <<>> THEN [dict |-> d, error |-> NoError]
    ELSE LET param == Head(params) IN
         IF as_float /\ ~FloatParses(param.Value)
         THEN [dict |-> d, error |-> ValueError(param.Value)]
         ELSE StoreParameters(Tail(params),
                              Put(d, SplitLast(param.Name),
                                  IF as_float THEN Float(param.Value) ELSE param.Value),
                              as_float)

\* d = {}; try: get_parameters_by_path(Path=path) and the loop; except: print
ReadPath(response, path, as_float) ==
    IF response.raises
    THEN [dict |-> EmptyMap, error |-> ParameterStoreError(path)]
    ELSE StoreParameters(response.Parameters, EmptyMap, as_float)

Printed(msg, e) == [msg |-> msg, e |-> e]

\* ------------------------------------------------------------ get_pipeline
NotRun == [ran |-> FALSE, metric |-> 0, outcome |-> FALSE, selected |-> <<>>]

Frame == UNCHANGED <<env, calls, prev, execution, status, tagVars>>

\* an external call raises and nothing around it catches
RaiseExternal(e) ==
    /\ pc' = "raised"
    /\ exc' = e
    /\ ext_failures' = ext_failures \cup {e}
    /\ UNCHANGED <<locals, defined, log, result>>

\* a subscript of a dict raises KeyError
RaiseKeyError(k) ==
    /\ pc' = "raised"
    /\ exc' = KeyError(k)
    /\ UNCHANGED <<ext_failures, locals, defined, log, result>>

Goto(next) == pc' = next /\ UNCHANGED <<exc, result>>

Define(step) == defined' = Append(defined, step)

\* the caller invokes get_pipeline; all its locals are fresh
Invoke ==
    /\ pc \in {"idle", "done", "raised"}
    /\ calls < MaxCalls
    /\ calls' = calls + 1
    /\ prev' = IF pc = "done" THEN result ELSE prev
    /\ pc' = "get_session"
    /\ role' = env.args.role
    /\ default_bucket' = env.args.default_bucket
    /\ feature_group_name' = None
    /\ model_target_parameters' = EmptyMap
    /\ model_training_hyperparameters' = EmptyMap
    /\ model_validation_thresholds' = EmptyMap
    /\ defined' = <<>>
    /\ log' = <<>>
    /\ ext_failures' = {}
    /\ exc' = NoError
    /\ result' = NoPipeline
    /\ execution' = NotRun
    /\ status' = EmptyMap
    /\ UNCHANGED <<env, tagVars>>

\* sagemaker_session = get_session(region, default_bucket)
GetSession ==
    /\ pc = "get_session"
    /\ \E fails \in BOOLEAN :
         IF fails THEN RaiseExternal(PlatformError("get_session"))
         ELSE Goto("default_bucket") /\ UNCHANGED <<locals, defined, log, ext_failures>>
    /\ Frame

\* default_bucket = sagemaker_session.default_bucket()
DefaultBucket ==
    /\ pc = "default_bucket"
    /\ \E fails \in BOOLEAN :
         IF fails THEN RaiseExternal(PlatformError("default_bucket"))
         ELSE /\ Goto("get_execution_role")
              /\ default_bucket' = IF default_bucket = None THEN "sagemaker-default-bucket"
                                   ELSE default_bucket
              /\ UNCHANGED <<role, feature_group_name, model_target_parameters,
                             model_training_hyperparameters, model_validation_thresholds,
                             defined, log, ext_failures>>
    /\ Frame

\* if role is None: role = sagemaker.session.get_execution_role(sagemaker_session)
GetExecutionRole ==
    /\ pc = "get_execution_role"
    /\ IF role # None
       THEN Goto("get_pipeline_session") /\ UNCHANGED <<locals, defined, log, ext_failures>>
       ELSE \E fails \in BOOLEAN :
              IF fails THEN RaiseExternal(PlatformError("get_execution_role"))
              ELSE /\ Goto("get_pipeline_session")
                   /\ role' = "ExecutionRole"
                   /\ UNCHANGED <<default_bucket, feature_group_name, model_target_parameters,
                                  model_training_hyperparameters, model_validation_thresholds,
                                  defined, log, ext_failures>>
    /\ Frame

\* pipeline_session = get_pipeline_session(...) and the six placeholders
GetPipelineSession ==
    /\ pc = "get_pipeline_session"
    /\ \E fails \in BOOLEAN :
         IF fails THEN RaiseExternal(PlatformError("get_pipeline_session"))
         ELSE Goto("get_parameter") /\ UNCHANGED <<locals, defined, log, ext_failures>>
    /\ Frame

\* feature_group_name = ssm_client.get_parameter(Name=...)["Parameter"]["Value"]
GetFeatureGroupName ==
    /\ pc = "get_parameter"
    /\ IF env.feature_group.raises
       THEN RaiseExternal(ParameterStoreError("sagemaker-feature-group-name"))
       ELSE /\ Goto("read_target")
            /\ feature_group_name' = env.feature_group.Value
            /\ UNCHANGED <<role, default_bucket, model_target_parameters,
                           model_training_hyperparameters, model_validation_thresholds,
                           defined, log, ext_failures>>
    /\ Frame

\* what a guarded read leaves behind: the dict, the line printed, the failure
AfterRead(read, msg) ==
    /\ log' = IF read.error = NoError THEN log ELSE Append(log, Printed(msg, read.error))
    /\ ext_failures' = IF read.error.type = "ParameterStoreError"
                       THEN ext_failures \cup {read.error} ELSE ext_failures

\* the target read without its try block
ReadTargetUnguarded ==
    /\ pc = "read_target"
    /\ IF env.target.raises
       THEN RaiseExternal(ParameterStoreError("target"))
       ELSE LET read == ReadPath(env.target, "target", FALSE) IN
              /\ model_target_parameters' = read.dict
              /\ AfterRead(read, "An error occurred reading the model target parameters")
              /\ Goto("read_hyperparameters")
              /\ UNCHANGED <<role, default_bucket, feature_group_name,
                             model_training_hyperparameters, model_validation_thresholds,
                             defined>>
    /\ Frame

\* model_target_parameters = {}; try: ... except Exception as e: print(...)
ReadTarget ==
    /\ pc = "read_target"
    /\ LET read == ReadPath(env.target, "target", FALSE) IN
         /\ model_target_parameters' = read.dict
         /\ AfterRead(read, "An error occurred reading the model target parameters")
    /\ Goto("read_hyperparameters")
    /\ UNCHANGED <<role, default_bucket, feature_group_name,
                   model_training_hyperparameters, model_validation_thresholds, defined>>
    /\ Frame

\* model_training_hyperparameters = {}; try: ... except Exception as e: print(...)
ReadHyperparameters ==
    /\ pc = "read_hyperparameters"
    /\ LET read == ReadPath(env.hyper, "training-hyperparameters", FALSE) IN
         /\ model_training_hyperparameters' = read.dict
         /\ AfterRead(read, "An error occurred reading the model training hyperparameters")
    /\ Goto("read_thresholds")
    /\ UNCHANGED <<role, default_bucket, feature_group_name,
                   model_target_parameters, model_validation_thresholds, defined>>
    /\ Frame

\* model_validation_thresholds = {}; try: ... float(...) except Exception as e: print(...)
ReadThresholds ==
    /\ pc = "read_thresholds"
    /\ LET read == ReadPath(env.thresholds, "validation-threshold", TRUE) IN
         /\ model_validation_thresholds' = read.dict
         /\ AfterRead(read, "An error occurred reading the model validation thresholds")
    /\ Goto("processing_image_uri")
    /\ UNCHANGED <<role, default_bucket, feature_group_name,
                   model_target_parameters, model_training_hyperparameters, defined>>
    /\ Frame

\* processing_image_uri = sagemaker.image_uris.get_base_python_image_uri(...)
ProcessingImageUri ==
    /\ pc = "processing_image_uri"
    /\ \E fails \in BOOLEAN :
         IF fails THEN RaiseExternal(PlatformError("get_base_python_image_uri"))
         ELSE Goto("step_preprocessing") /\ UNCHANGED <<locals, defined, log, ext_failures>>
    /\ Frame

\* A statement group that builds one step: the SDK constructor before the
\* subscripts may raise; then the subscripts raise KeyError on a missing key;
\* then the remaining SDK calls may raise; otherwise the step is defined.
BuildStep(here, next, lookups, step) ==
    /\ \E fails_before \in BOOLEAN, fails_after \in BOOLEAN :
         IF fails_before THEN RaiseExternal(PlatformError(here))
         ELSE IF FirstMissing(lookups) # None THEN RaiseKeyError(FirstMissing(lookups))
         ELSE IF fails_after THEN RaiseExternal(PlatformError(here))
         ELSE /\ Goto(next)
              /\ Define(step)
              /\ UNCHANGED <<locals, log, ext_failures>>
    /\ Frame

\* data_preprocessor = ScriptProcessor(...); .run(...); ProcessingStep(...)
BuildPreprocessing ==
    /\ pc = "step_preprocessing"
    /\ BuildStep("step_preprocessing", "deepar_image_uri", PreprocessingLookups,
                 StepPreprocessing)

\* the image lookup inside a try block that prints and goes on
DeeparImageUriGuarded ==
    /\ pc = "deepar_image_uri"
    /\ \E fails \in BOOLEAN :
         IF fails
         THEN /\ Goto("step_train")
              /\ ext_failures' = ext_failures \cup {PlatformError("image_uris.retrieve")}
              /\ log' = Append(log, Printed("An error occurred",
                                            PlatformError("image_uris.retrieve")))
              /\ UNCHANGED <<locals, defined>>
         ELSE Goto("step_train") /\ UNCHANGED <<locals, defined, log, ext_failures>>
    /\ Frame

\* deepar_image_uri = sagemaker.image_uris.retrieve(...)
DeeparImageUri ==
    /\ pc = "deepar_image_uri"
    /\ \E fails \in BOOLEAN :
         IF fails THEN RaiseExternal(PlatformError("image_uris.retrieve"))
         ELSE Goto("step_train") /\ UNCHANGED <<locals, defined, log, ext_failures>>
    /\ Frame

\* Estimator(...); hyperparameters = {...}; set_hyperparameters; fit; TrainingStep
BuildTrain ==
    /\ pc = "step_train"
    /\ BuildStep("step_train", "step_create_model", HyperparameterLookups, StepTrain)

\* Model(...); model.create(...); ModelStep(...)
BuildCreateModel ==
    /\ pc = "step_create_model"
    /\ BuildStep("step_create_model", "step_transform", <<>>, StepCreateModel)

\* Transformer(...); TransformInput; transformer.transform(...); TransformStep(...)
BuildTransform ==
    /\ pc = "step_transform"
    /\ BuildStep("step_transform", "step_eval", <<>>, StepTransform)

\* ScriptProcessor(...); .run(...); PropertyFile; ProcessingStep(...)
BuildEval ==
    /\ pc = "step_eval"
    /\ BuildStep("step_eval", "model_quality_check_step", EvaluationLookups, StepEval)

\* CheckJobConfig; ModelQualityCheckConfig; QualityCheckStep; ModelMetrics; DriftCheckBaselines
BuildQualityCheck ==
    /\ pc = "model_quality_check_step"
    /\ BuildStep("model_quality_check_step", "step_register", <<>>,
                 ModelQualityCheckStep("Blockchain"))

\* model.register(...); ModelStep(...)
BuildRegister ==
    /\ pc = "step_register"
    /\ BuildStep("step_register", "step_cond", <<>>, StepRegister("Blockchain"))

\* print(f"... {model_validation_thresholds['mean_quantile_loss']}"); the
\* condition; ConditionStep(...). The subscript comes before any SDK call.
BuildCondition ==
    /\ pc = "step_cond"
    /\ IF FirstMissing(ConditionLookups) # None
       THEN RaiseKeyError(FirstMissing(ConditionLookups))
       ELSE \E fails \in BOOLEAN :
              IF fails
              THEN /\ pc' = "raised"
                   /\ exc' = PlatformError("step_cond")
                   /\ ext_failures' = ext_failures \cup {PlatformError("step_cond")}
                   /\ log' = Append(log, Printed("model validation threshold used is", NoError))
                   /\ UNCHANGED <<locals, defined, result>>
              ELSE /\ Goto("pipeline")
                   /\ Define(StepCond)
                   /\ log' = Append(log, Printed("model validation threshold used is", NoError))
                   /\ UNCHANGED <<locals, ext_failures>>
    /\ Frame

\* pipeline = Pipeline(name=..., parameters=[...], steps=[...]); return pipeline
BuildPipeline ==
    /\ pc = "pipeline"
    /\ \E fails \in BOOLEAN :
         IF fails THEN RaiseExternal(PlatformError("Pipeline"))
         ELSE /\ pc' = "done"
              /\ result' = Pipeline(base_job_prefix, PipelineParameters, PipelineSteps)
              /\ UNCHANGED <<exc, locals, defined, log, ext_failures>>
    /\ Frame

\* ------------------------------------- the engine evaluates the condition
JsonPaths ==
    {"deepar_metrics.mean_quantile_loss.value", "deepar_metrics.weighted_quantile_loss.value"}

\* the evaluation reports the EvaluateModel job may write
Reports == [JsonPaths -> 0..MaxMetric]

\* the value a JsonGet resolves to, and the comparison of the condition
Holds(condition, report) ==
    LET left == report[condition.left.json_path] IN
    CASE condition.type = "LessThanOrEqualTo" -> left <= condition.right
      [] condition.type = "LessThan" -> left < condition.right
      [] condition.type = "GreaterThanOrEqualTo" -> left >= condition.right
      [] OTHER -> FALSE

Names(steps) == [i \in 1..Len(steps) |-> steps[i].name]

\* the steps a condition step hands on to
Selected(step, report) ==
    IF Holds(step.condition, report) THEN Names(step.if_steps) ELSE Names(step.else_steps)

ConditionStepOf(pipeline) ==
    pipeline.steps[CHOOSE i \in 1..Len(pipeline.steps) :
                       pipeline.steps[i].kind = "ConditionStep"]

\* the steps of a pipeline: the top-level ones and those of their branches
RECURSIVE Flatten(_)
Flatten(steps) ==
    IF steps = <<>> THEN {}
    ELSE {Head(steps)} \cup Flatten(Head(steps).if_steps)
         \cup Flatten(Head(steps).else_steps) \cup Flatten(Tail(steps))

StepNames(pipeline) == { step.name : step \in Flatten(pipeline.steps) }

StepNamed(pipeline, name) == CHOOSE step \in Flatten(pipeline.steps) : step.name = name

\* the steps whose completion a step waits for: depends_on, the steps whose
\* properties it reads, the step whose property file its JsonGet reads
Requires(step) ==
    step.depends_on \cup step.refs
    \cup (IF step.kind = "ConditionStep" THEN {step.condition.left.step_name} ELSE {})

Finished(name) == name \in DOMAIN status /\ status[name] = "finished"

\* a step of a branch waits for its condition step and runs only on that branch
BranchOpen(step) ==
    \A c \in Flatten(result.steps) :
        /\ (\E i \in 1..Len(c.if_steps) : c.if_steps[i].name = step.name)
             => Finished(c.name) /\ execution.ran /\ execution.outcome
        /\ (\E i \in 1..Len(c.else_steps) : c.else_steps[i].name = step.name)
             => Finished(c.name) /\ execution.ran /\ ~execution.outcome

CanStart(step) ==
    /\ status[step.name] = "pending"
    /\ \A r \in Requires(step) : Finished(r)
    /\ BranchOpen(step)

EngineFrame ==
    UNCHANGED <<env, calls, pc, locals, defined, log, ext_failures, exc, result,
                prev, tagVars>>

\* the pipeline returned is submitted and the engine starts an execution of it
StartExecution ==
    /\ pc = "done"
    /\ status = EmptyMap
    /\ status' = [name \in StepNames(result) |-> "pending"]
    /\ UNCHANGED execution
    /\ EngineFrame

\* the engine starts a step whose dependencies are met
StartStep ==
    /\ pc = "done"
    /\ \E step \in Flatten(result.steps) :
         /\ step.name \in DOMAIN status
         /\ CanStart(step)
         /\ status' = [status EXCEPT ![step.name] = "running"]
    /\ UNCHANGED execution
    /\ EngineFrame

\* a running job ends
FinishStep ==
    /\ pc = "done"
    /\ \E step \in Flatten(result.steps) :
         /\ step.name \in DOMAIN status
         /\ step.kind # "ConditionStep"
         /\ status[step.name] = "running"
         /\ status' = [status EXCEPT ![step.name] = "finished"]
    /\ UNCHANGED execution
    /\ EngineFrame

\* the engine runs CheckMQLCondition of the pipeline returned, on the report
\* the EvaluateModel job wrote
EvaluateCondition ==
    /\ pc = "done"
    /\ ~execution.ran
    /\ ConditionStepOf(result).name \in DOMAIN status
    /\ status[ConditionStepOf(result).name] = "running"
    /\ \E report \in Reports :
         execution' = [ran |-> TRUE,
                       metric |-> report["deepar_metrics.mean_quantile_loss.value"],
                       outcome |-> Holds(ConditionStepOf(result).condition, report),
                       selected |-> Selected(ConditionStepOf(result), report)]
    /\ status' = [status EXCEPT ![ConditionStepOf(result).name] = "finished"]
    /\ EngineFrame

\* ------------------------------------------------ get_pipeline_custom_tags
TagValues == {"team", "cost-center"}

\* sm_client.describe_project(...): it raises, or the response has or lacks ProjectArn
DescribeResponses ==
    { [raises |-> TRUE, body |-> EmptyMap],
      [raises |-> FALSE, body |-> EmptyMap],
      [raises |-> FALSE, body |-> [k \in {"ProjectArn"} |-> "arn:project"]] }

\* sm_client.list_tags(...): it raises, or the response has or lacks Tags
ListResponses ==
    { [raises |-> TRUE, body |-> EmptyMap], [raises |-> FALSE, body |-> EmptyMap] }
    \cup { [raises |-> FALSE, body |-> [k \in {"Tags"} |-> ts]] :
             ts \in SeqsUpTo(TagValues, MaxTags) }

\* the loop made to skip a tag the list already holds
RECURSIVE AppendAllDeduplicated(_, _)
AppendAllDeduplicated(list, project_tags) ==
    IF project_tags = <<>> THEN list
    ELSE IF \E i \in 1..Len(list) : list[i] = Head(project_tags)
    THEN AppendAllDeduplicated(list, Tail(project_tags))
    ELSE AppendAllDeduplicated(Append(list, Head(project_tags)), Tail(project_tags))

\* for project_tag in project_tags: new_tags.append(project_tag)
RECURSIVE AppendAll(_, _)
AppendAll(list, project_tags) ==
    IF project_tags = <<>> THEN list
    ELSE AppendAll(Append(list, Head(project_tags)), Tail(project_tags))

TagsReturn(list, error) == [new_tags |-> list, raised |-> FALSE, error |-> error]

\* the body with an except clause that lets a missing field through
CustomTagsNarrowExcept(list, client_raises, describe, listing) ==
    IF client_raises THEN TagsReturn(list, PlatformError("get_sagemaker_client"))
    ELSE IF describe.raises THEN TagsReturn(list, PlatformError("describe_project"))
    ELSE IF "ProjectArn" \notin DOMAIN describe.body
    THEN [new_tags |-> list, raised |-> TRUE, error |-> KeyError("ProjectArn")]
    ELSE IF listing.raises THEN TagsReturn(list, PlatformError("list_tags"))
    ELSE IF "Tags" \notin DOMAIN listing.body
    THEN [new_tags |-> list, raised |-> TRUE, error |-> KeyError("Tags")]
    ELSE TagsReturn(AppendAll(list, listing.body["Tags"]), NoError)

\* the body of get_pipeline_custom_tags on the caller's list
CustomTags(list, client_raises, describe, listing) ==
    IF client_raises THEN TagsReturn(list, PlatformError("get_sagemaker_client"))
    ELSE IF describe.raises THEN TagsReturn(list, PlatformError("describe_project"))
    ELSE IF "ProjectArn" \notin DOMAIN describe.body THEN TagsReturn(list, KeyError("ProjectArn"))
    ELSE IF listing.raises THEN TagsReturn(list, PlatformError("list_tags"))
    ELSE IF "Tags" \notin DOMAIN listing.body THEN TagsReturn(list, KeyError("Tags"))
    ELSE TagsReturn(AppendAll(list, listing.body["Tags"]), NoError)

NotCalled ==
    [called |-> FALSE, returned |-> <<>>, raised |-> FALSE, error |-> NoError,
     project_tags |-> <<>>]

\* what the tagging service handed over: the tags of the project when both
\* calls answered with their field, nothing otherwise
TagsListed(client_raises, describe, listing) ==
    IF /\ ~client_raises
       /\ ~describe.raises
       /\ "ProjectArn" \in DOMAIN describe.body
       /\ ~listing.raises
       /\ "Tags" \in DOMAIN listing.body
    THEN listing.body["Tags"]
    ELSE <<>>

\* the caller calls get_pipeline_custom_tags(new_tags, region, name)
GetPipelineCustomTags ==
    /\ tag_calls < MaxTagCalls
    /\ \E client_raises \in BOOLEAN, describe \in DescribeResponses,
          listing \in ListResponses :
         LET r == CustomTags(new_tags, client_raises, describe, listing) IN
           /\ new_tags' = r.new_tags
           /\ tags_result' = [called |-> TRUE, returned |-> r.new_tags,
                              raised |-> r.raised, error |-> r.error,
                              project_tags |-> TagsListed(client_raises, describe, listing)]
           /\ listed' = listed \o TagsListed(client_raises, describe, listing)
    /\ supplied' = new_tags
    /\ tag_calls' = tag_calls + 1
    /\ UNCHANGED original
    /\ UNCHANGED buildVars

\* ---------------------------------------------------------- specifications
Idle(e) ==
    /\ env = e
    /\ calls = 0
    /\ pc = "idle"
    /\ role = None
    /\ default_bucket = None
    /\ feature_group_name = None
    /\ model_target_parameters = EmptyMap
    /\ model_training_hyperparameters = EmptyMap
    /\ model_validation_thresholds = EmptyMap
    /\ defined = <<>>
    /\ log = <<>>
    /\ ext_failures = {}
    /\ exc = NoError
    /\ result = NoPipeline
    /\ prev = NoPipeline
    /\ execution = NotRun
    /\ status = EmptyMap

NoTagCalls(list) ==
    /\ new_tags = list
    /\ supplied = list
    /\ tags_result = NotCalled
    /\ tag_calls = 0
    /\ original = list
    /\ listed = <<>>

\* the builder and the engine, in every environment
Init == (\E e \in Environments : Idle(e)) /\ NoTagCalls(<<>>)

Next ==
    \/ Invoke
    \/ GetSession
    \/ DefaultBucket
    \/ GetExecutionRole
    \/ GetPipelineSession
    \/ GetFeatureGroupName
    \/ ReadTarget
    \/ ReadHyperparameters
    \/ ReadThresholds
    \/ ProcessingImageUri
    \/ BuildPreprocessing
    \/ DeeparImageUri
    \/ BuildTrain
    \/ BuildCreateModel
    \/ BuildTransform
    \/ BuildEval
    \/ BuildQualityCheck
    \/ BuildRegister
    \/ BuildCondition
    \/ BuildPipeline
    \/ StartExecution
    \/ StartStep
    \/ FinishStep
    \/ EvaluateCondition

Spec == Init /\ [][Next]_vars

\* the tag helper, on every list the caller may hold
InitTags ==
    /\ Idle(CHOOSE e \in Environments : TRUE)
    /\ \E list \in SeqsUpTo(TagValues, MaxTags) : NoTagCalls(list)

NextTags == GetPipelineCustomTags

SpecTags == InitTags /\ [][NextTags]_vars

\* ------------------------------------------------------------- properties
Terminated == pc \in {"done", "raised"}

Logged(f) == \E i \in 1..Len(log) : log[i].e = f

\* no external call of this invocation failed outside a handler
NoPlatformFailure == \A f \in ext_failures : f.type # "PlatformError"

TargetKeys == {"freq", "target_col", "prediction_length"}

HyperKeys == {"epochs", "early_stopping_patience", "mini_batch_size", "learning_rate"}

ThresholdKeys == {"mean_quantile_loss"}

TargetWellFormed ==
    LET read == ReadPath(env.target, "target", FALSE) IN
      read.error = NoError /\ TargetKeys \subseteq DOMAIN read.dict

HyperWellFormed ==
    LET read == ReadPath(env.hyper, "training-hyperparameters", FALSE) IN
      read.error = NoError /\ HyperKeys \subseteq DOMAIN read.dict

ThresholdsWellFormed ==
    LET read == ReadPath(env.thresholds, "validation-threshold", TRUE) IN
      read.error = NoError /\ ThresholdKeys \subseteq DOMAIN read.dict

\* all four reads succeed and every key the builder uses is there
WellFormed ==
    /\ ~env.feature_group.raises
    /\ TargetWellFormed
    /\ HyperWellFormed
    /\ ThresholdsWellFormed

References(step) ==
    step.depends_on \cup step.refs
    \cup (IF step.kind = "ConditionStep" THEN {step.condition.left.step_name} ELSE {})
    \cup { step.if_steps[i].name : i \in 1..Len(step.if_steps) }
    \cup { step.else_steps[i].name : i \in 1..Len(step.else_steps) }

\* C2: at every point of the build, each step defined so far refers only to
\* steps defined before it (never to itself or a later one), and the build
\* order of a finished build is PreprocessData, TrainModel, CreateModel,
\* Transform, EvaluateModel, QualityCheck, RegisterModel, CheckMQLCondition.
C2_OnlyEarlierSteps ==
    /\ \A i \in 1..Len(defined) :
         References(defined[i]) \subseteq { defined[j].name : j \in 1..(i - 1) }
    /\ pc = "done" =>
         Names(defined) =
             << "PreprocessData", "TrainModel", "CreateModel", "Transform",
                "EvaluateModel", "QualityCheck", "RegisterModel", "CheckMQLCondition" >>

C2_Witness ==
    /\ pc = "done"
    /\ Len(defined) = 8
    /\ References(defined[8]) = {"EvaluateModel", "RegisterModel"}

\* only the training-hyperparameters lookup fails; everything else is well-formed
OnlyHyperLookupFails ==
    /\ env.hyper.raises
    /\ ~env.feature_group.raises
    /\ TargetWellFormed
    /\ ThresholdsWellFormed

\* C3: when only the training-hyperparameters lookup fails, the hyperparameter
\* mapping is empty and get_pipeline still returns a pipeline instead of
\* raising (no platform call having failed).
C3_HyperFailureCompletes ==
    (OnlyHyperLookupFails /\ Terminated /\ NoPlatformFailure) =>
        /\ model_training_hyperparameters = EmptyMap
        /\ pc = "done"
        /\ exc = NoError
        /\ result # NoPipeline

\* C4: when the project-tag lookup fails (the client, describe_project or
\* list_tags raises, or a response lacks its field), get_pipeline_custom_tags does not
\* raise and returns exactly the elements the caller supplied, in order; the
\* caller's list has gained no tag.
C4_TagsUnchangedOnFailure ==
    (tags_result.called /\ tags_result.error # NoError) =>
        /\ ~tags_result.raised
        /\ tags_result.returned = supplied
        /\ new_tags = supplied

C4_Witness ==
    /\ tags_result.called
    /\ tags_result.error = KeyError("Tags")
    /\ supplied # <<>>
    /\ tags_result.returned = supplied

\* the threshold the parameter store configures for mean_quantile_loss
ConfiguredThreshold == model_validation_thresholds["mean_quantile_loss"]

\* C5: CheckMQLCondition selects RegisterModel exactly when the metric read
\* from the report is at most the configured threshold (equality included),
\* and selects no step when the metric is above it.
C5_ConditionSelects ==
    execution.ran =>
        /\ execution.metric <= ConfiguredThreshold
             <=> execution.selected = << "RegisterModel" >>
        /\ execution.metric > ConfiguredThreshold => execution.selected = <<>>

C5_Witness ==
    /\ execution.ran
    /\ execution.metric = ConfiguredThreshold
    /\ execution.selected = << "RegisterModel" >>

StorePaths == {"target", "training-hyperparameters", "validation-threshold"}

SectionOf(msg) ==
    CASE msg = "An error occurred reading the model target parameters"
           -> model_target_parameters
      [] msg = "An error occurred reading the model training hyperparameters"
           -> model_training_hyperparameters
      [] msg = "An error occurred reading the model validation thresholds"
           -> model_validation_thresholds

\* C8: whenever the read of a section ended in a caught failure, a failure
\* part-way through the returned parameters included, that section's mapping
\* is empty afterwards.
C8_FailedSectionEmpty ==
    \A i \in 1..Len(log) :
        log[i].e # NoError => SectionOf(log[i].msg) = EmptyMap

\* the target or the validation-threshold lookup raises (or both do), and
\* whatever did not raise is well-formed
TargetOrThresholdLookupFails ==
    /\ ~env.feature_group.raises
    /\ HyperWellFormed
    /\ env.target.raises \/ env.thresholds.raises
    /\ env.target.raises \/ TargetWellFormed
    /\ env.thresholds.raises \/ ThresholdsWellFormed

\* C9: when the target or the validation-threshold lookup fails and is caught,
\* the build goes on to construct every step and returns a pipeline instead
\* of raising (no platform call having failed).
C9_BuildProceeds ==
    (TargetOrThresholdLookupFails /\ Terminated /\ NoPlatformFailure) =>
        /\ pc = "done"
        /\ Len(defined) = 8
        /\ result # NoPipeline

\* C10: a failure raised by a platform call (session, default bucket, role,
\* image lookups, step and pipeline construction) is not caught: the
\* invocation has ended with exactly that failure, nothing was printed about
\* it, and no pipeline was returned.
C10_PlatformFailurePropagates ==
    \A f \in ext_failures :
        f.type = "PlatformError" =>
            /\ pc = "raised"
            /\ exc = f
            /\ ~Logged(f)
            /\ result = NoPipeline

C10_Witness ==
    /\ pc = "raised"
    /\ exc = PlatformError("image_uris.retrieve")
    /\ ext_failures = {PlatformError("image_uris.retrieve")}

\* C12: when the lookup succeeds, get_pipeline_custom_tags returns the tags
\* the caller supplied followed by every project tag in the order the service
\* returned them, none dropped or de-duplicated; what it returns is the
\* caller's own list extended in place, so the list holds, after the first
\* list of the caller, the tags of every lookup that succeeded: twice for two
\* calls.
C12_ProjectTagsAppendedInPlace ==
    /\ (tags_result.called /\ tags_result.error = NoError) =>
           /\ ~tags_result.raised
           /\ tags_result.returned = supplied \o tags_result.project_tags
           /\ new_tags = tags_result.returned
    /\ new_tags = original \o listed

C12_Witness ==
    /\ tag_calls = 2
    /\ tags_result.error = NoError
    /\ original = << "team" >>
    /\ tags_result.project_tags = << "team", "cost-center" >>
    /\ new_tags = << "team", "team", "cost-center", "team", "cost-center" >>

\* the six placeholders the builder declares
DeclaredPlaceholders ==
    { processing_instance_count, model_approval_status, skip_check_model_quality,
      register_new_baseline_model_quality, supplied_baseline_statistics_model_quality,
      supplied_baseline_constraints_model_quality }

PlaceholderKinds == {"ParameterInteger", "ParameterString", "ParameterBoolean"}

\* C13: every element of the parameter list of the pipeline returned is a
\* named placeholder of kind integer, string or boolean, no two elements share
\* a name, and each of the six placeholders the builder declares is in the
\* list and is referred to by at least one step.
C13_ParametersArePlaceholders ==
    pc = "done" =>
        /\ \A i \in 1..Len(result.parameters) :
             /\ result.parameters[i].kind \in PlaceholderKinds
             /\ result.parameters[i].name # None
        /\ \A i, j \in 1..Len(result.parameters) :
             i # j => result.parameters[i].name # result.parameters[j].name
        /\ \A d \in DeclaredPlaceholders :
             /\ \E i \in 1..Len(result.parameters) : result.parameters[i] = d
             /\ \E step \in Flatten(result.steps) : d.name \in step.params

Started(name) == name \in DOMAIN status /\ status[name] # "pending"

\* the execution has come to rest: nothing runs and nothing can start
Quiescent ==
    /\ pc = "done"
    /\ status # EmptyMap
    /\ \A step \in Flatten(result.steps) : status[step.name] # "running" /\ ~CanStart(step)

C11_RestWithoutRegistration ==
    /\ Quiescent
    /\ ~execution.outcome
    /\ Finished("QualityCheck")
    /\ status["RegisterModel"] = "pending"

====
